---- MODULE Spec2Model ----
(***************************************************************************)
(* Google Drive -> Facebook video transfer (up_down_gui.py).               *)
(*                                                                         *)
(* Each click on "Download & Upload" starts one operation: a thread that   *)
(* runs threaded_process = convert_drive_link_to_file_id, then             *)
(* download_video_file (the Fetcher), then, on success,                    *)
(* upload_to_facebook (the Uploader).  All operations share the file       *)
(* TEMP_FILENAME (the Local Artifact) and ERROR_HTML_FILE (the diagnostic  *)
(* file).  The servers are the environment: every response is an input.    *)
(* A click on "Test Token" starts a thread that runs test_token (the       *)
(* Credential Checker).                                                    *)
(*                                                                         *)
(* Bytes are modelled by their origin: a byte sequence is a sequence of    *)
(* runs [src, lo, hi), the bytes lo..hi-1 of the body named src.           *)
(* A missing JSON field / Python None is <<>>, a present value v is <<v>>. *)
(***************************************************************************)
EXTENDS Integers, Sequences, FiniteSets, TLC

\* ------------------------------------------------------------ constants
\* content_length < 1000000 (line 61)
Threshold == 1000000
\* response.iter_content(32768) (line 71)
ReadSize == 32768

\* ------------------------------------------------------------ bounds
\* length of the body of a response that is much shorter than it declares
TinyLen == 2
\* length of a Local Artifact left on disk by an earlier run
OldLen == 3
\* bytes a body may hold beyond Threshold
MaxExtra == 40000
\* largest offset the upload server dictates
MaxOffset == 3
\* transfer requests modelled per upload (the loop itself has no bound)
MaxTransfers == 3
\* pieces of a link typed by the caller
MaxPieces == 5

\* the operations (threads) the caller may start
Ops == {1, 2}

None == <<>>
Some(v) == <<v>>

\* ------------------------------------------------------------ byte runs
ZeroSrc == <<0, 0>>
OldSrc == <<0, 1>>
BodySrc(t, k) == <<t, k>>

Run(s, lo, hi) == IF hi > lo THEN <<[src |-> s, lo |-> lo, hi |-> hi]>> ELSE <<>>

RECURSIVE ByteLen(_)
ByteLen(f) == IF f = <<>> THEN 0 ELSE (f[1].hi - f[1].lo) + ByteLen(Tail(f))

\* the first n bytes of f
RECURSIVE TakeBytes(_, _)
TakeBytes(f, n) ==
    IF n <= 0 \/ f = <<>> THEN <<>>
    ELSE LET r == f[1]
             l == r.hi - r.lo
         IN  IF l <= n THEN <<r>> \o TakeBytes(Tail(f), n - l)
             ELSE Run(r.src, r.lo, r.lo + n)

\* f without its first n bytes
RECURSIVE DropBytes(_, _)
DropBytes(f, n) ==
    IF n <= 0 \/ f = <<>> THEN f
    ELSE LET r == f[1]
             l == r.hi - r.lo
         IN  IF l <= n THEN DropBytes(Tail(f), n - l)
             ELSE Run(r.src, r.lo + n, r.hi) \o Tail(f)

\* one representation per byte sequence: adjacent runs of one body are joined
RECURSIVE Norm(_)
Norm(f) ==
    IF Len(f) < 2 THEN f
    ELSE LET a == f[1]
             b == f[2]
         IN  IF a.src = b.src /\ a.src = ZeroSrc
             THEN Norm(Run(ZeroSrc, 0, (a.hi - a.lo) + (b.hi - b.lo)) \o Tail(Tail(f)))
             ELSE IF a.src = b.src /\ a.hi = b.lo
             THEN Norm(Run(a.src, a.lo, b.hi) \o Tail(Tail(f)))
             ELSE <<a>> \o Norm(Tail(f))

\* file.write(data) with the file position at pos: overwrites, extends, and
\* fills a gap left by a truncation with zero bytes
WriteAt(f, pos, data) ==
    LET pre == IF ByteLen(f) >= pos THEN TakeBytes(f, pos)
               ELSE f \o Run(ZeroSrc, 0, pos - ByteLen(f))
    IN  Norm(pre \o data \o DropBytes(f, pos + ByteLen(data)))

\* f.seek(pos); f.read(n): n < 0 reads to the end of the file
ReadAt(f, pos, n) ==
    IF n < 0 THEN DropBytes(f, pos) ELSE TakeBytes(DropBytes(f, pos), n)

Min(a, b) == IF a <= b THEN a ELSE b

\* ------------------------------------------------------------ state
VARIABLES
    pc,              \* where each operation's thread stands
    artifact,        \* TEMP_FILENAME: None (no such file) or Some(bytes)
    errorHtml,       \* ERROR_HTML_FILE: None or Some(text)
    log,             \* per operation, the lines it inserted into log_box, in
                     \* order, except the "Download progress" lines
    progress,        \* per operation, the percentage of its latest
                     \* "Download progress" line (NoProgress before the first)
    phases,          \* per operation, the HTTP requests it has issued, in order
    url,             \* threaded_process: url, a sequence of characters
    file_id,         \* threaded_process: file_id
    sent,            \* history: per operation, the URL and the parameters of
                     \* the GET requests of download_video_file, in order
    response,        \* download_video_file: response
    confirm,         \* download_video_file: (token, uuid_val)
    content_length,  \* download_video_file: content_length
    consumed,        \* bytes of response's body already yielded by iter_content
    fpos,            \* position of the file object f opened at line 69
    downloaded,      \* download_video_file: downloaded
    success,         \* threaded_process: success (None while downloading)
    file_size,       \* upload_to_facebook: file_size
    start_res,       \* upload_to_facebook: start_res (None before the response)
    session_id,      \* upload_to_facebook: session_id
    video_id,        \* upload_to_facebook: video_id
    start_offset,    \* upload_to_facebook: start_offset
    end_offset,      \* upload_to_facebook: end_offset
    chunk,           \* upload_to_facebook: chunk
    echoed,          \* history: every Transfer response so far repeated the
                     \* end_offset of the cursor it answered
    loop_exit,       \* history: how the transfer loop ended: "none", "empty_read"
                     \* (line 111), "equal" (line 134) or "error" (line 125)
    raised,          \* history: the step of upload_to_facebook that raised an
                     \* exception ("none" when no step did)
    tt_pc,           \* where the thread of run_token_test stands
    tt_res,          \* test_token: res (None before the response)
    tt_log,          \* the lines test_token inserted into log_box
    tt_gets          \* history: the GET requests test_token has issued

tpVars == <<url, file_id>>
dlVars == <<sent, response, confirm, content_length, consumed, fpos, downloaded, progress, success>>
upVars == <<file_size, start_res, session_id, video_id, start_offset, end_offset, chunk, echoed, loop_exit, raised>>
tokVars == <<tt_pc, tt_res, tt_log, tt_gets>>

NoProgress == 0 - 1
NoResponse ==
    [src |-> ZeroSrc, content_type |-> None, content_length |-> None, body_len |-> 0,
     form |-> None]

\* ------------------------------------------------------------ convert_drive_link_to_file_id
\* A string is a sequence of characters.
Marker == <<"o", "p", "e", "n", "?", "i", "d", "=">>

\* the characters of the model that \w matches
WordChars == {"a", "d", "e", "i", "n", "o", "p", "x", "_"}

\* [\w] for [\w-]
InClassWordOnly(c) == c \in WordChars

\* the character class [\w-] of line 22
InClass(c) == c \in WordChars \cup {"-"}

\* "/d/" followed by at least one character of the class begins at s[i]
MatchAt(s, i) ==
    /\ i + 3 <= Len(s)
    /\ s[i] = "/" /\ s[i + 1] = "d" /\ s[i + 2] = "/"
    /\ InClass(s[i + 3])

\* the first index from j on whose character is not in the class ("+" is greedy)
RECURSIVE RunEnd(_, _)
RunEnd(s, j) == IF j <= Len(s) /\ InClass(s[j]) THEN RunEnd(s, j + 1) ELSE j

\* re.search(r"/d/([\w-]+)", s): None, or Some(group 1 of the leftmost match)
Search(s) ==
    LET ms == {i \in 1..Len(s) : MatchAt(s, i)}
    IN  IF ms = {} THEN None
        ELSE LET i == CHOOSE m \in ms : \A o \in ms : m <= o
             IN  Some(SubSeq(s, i + 3, RunEnd(s, i + 3) - 1))

\* the indices at which m occurs in s
Occurrences(s, m) ==
    {i \in 1..(Len(s) - Len(m) + 1) : SubSeq(s, i, i + Len(m) - 1) = m}

\* m in s
Contains(s, m) == Occurrences(s, m) # {}

\* s.split(m)[-1]: the separators are found from left to right
RECURSIVE SplitLast(_, _)
SplitLast(s, m) ==
    LET os == Occurrences(s, m)
    IN  IF os = {} THEN s
        ELSE LET i == CHOOSE o \in os : \A p \in os : o <= p
             IN  SplitLast(SubSeq(s, i + Len(m), Len(s)), m)

\* convert_drive_link_to_file_id with the two tests in the other order
ConvertMarkerFirst(u) ==
    IF Contains(u, Marker) THEN SplitLast(u, Marker)
    ELSE IF Search(u) # None THEN Search(u)[1]
    ELSE u

\* lines 21-28
convert_drive_link_to_file_id(u) ==
    IF Search(u) # None THEN Search(u)[1]
    ELSE IF Contains(u, Marker) THEN SplitLast(u, Marker)
    ELSE u

\* the strings the caller may type: up to MaxPieces pieces, one after the other
SlashD == <<"/", "d", "/">>
Pieces == {<<"/">>, <<"d">>, <<"a">>, <<"-">>, <<".">>, SlashD, Marker}

RECURSIVE Flatten(_)
Flatten(ps) == IF ps = <<>> THEN <<>> ELSE ps[1] \o Flatten(Tail(ps))

Urls == {Flatten(ps) : ps \in UNION {[1..n -> Pieces] : n \in 0..MaxPieces}}

\* a link of the shape https://drive.google.com/file/d/<id>/view
ViewUrl == <<"x", "/", "d", "/", "a", "-", "_", "/", "x">>

\* a link of the shape https://drive.google.com/open?id=<id>
OpenUrl == <<"x", "/">> \o Marker \o <<"a", "-", "_">>

\* ------------------------------------------------------------ inputs
ContentTypes == {None, Some("video/mp4"), Some("text/html; charset=utf-8"), Some("TEXT/HTML")}
ContentLengths == {None, Some(Threshold - 1), Some(Threshold)}
BodyLens == {0, TinyLen, Threshold, Threshold + MaxExtra}

\* the responses the download servers may give: the two headers the code
\* reads and the length of the body
GetResponses == [content_type : ContentTypes, content_length : ContentLengths, body_len : BodyLens]

\* the response r to request k of operation t; its body is BodySrc(t, k) and
\* f is what BeautifulSoup finds in it
Received(t, k, r, f) ==
    [src |-> BodySrc(t, k), content_type |-> r.content_type,
     content_length |-> r.content_length, body_len |-> r.body_len, form |-> f]

\* what BeautifulSoup finds in a response: None (no form with id
\* download-form) or the form's inputs "confirm" and "uuid"; an input is None
\* (no such input) or Some(its value attribute), the attribute None when missing
Field(v) == Some(Some(v))
Forms ==
    { None,
      Some([confirm |-> Field("tok"), uuid |-> None]),
      Some([confirm |-> Field("tok"), uuid |-> Some(None)]),
      Some([confirm |-> Field(""), uuid |-> Field("uid")]),
      Some([confirm |-> Field("tok"), uuid |-> Field("uid")]) }

\* no confirmation form, and the form with both values
ConcForms == {None, Some([confirm |-> Field("tok"), uuid |-> Field("uid")])}

\* the sizes of the chunks iter_content may yield, the stream permitting
ChunkLens == {0, ReadSize \div 2, ReadSize}

\* ------------------------------------------------------------ download_video_file
\* Python truthiness of an optional string
Truthy(v) == v # None /\ v[1] # ""

\* get_confirm_info_from_form that returns the two values in the other order
get_confirm_info_swapped(form) ==
    IF form = None THEN <<None, None>>
    ELSE IF form[1].confirm # None /\ form[1].uuid # None
         THEN <<form[1].uuid[1], form[1].confirm[1]>>
         ELSE <<None, None>>

\* lines 36-45
get_confirm_info_from_form(form) ==
    IF form = None THEN <<None, None>>
    ELSE IF form[1].confirm # None /\ form[1].uuid # None
         THEN <<form[1].confirm[1], form[1].uuid[1]>>
         ELSE <<None, None>>

\* lines 33-34: the first GET
GetRequest(fid) ==
    [endpoint |-> "https://drive.google.com/uc?export=download",
     params |-> [id |-> fid]]

\* lines 49-56: the second GET
ConfirmRequest(fid, c) ==
    [endpoint |-> "https://drive.usercontent.google.com/download",
     params |-> [id |-> fid, export |-> "download", confirm |-> c[1], uuid |-> c[2]]]

\* response.headers.get("content-type", "")
HeaderOr(h, default) == IF h = None THEN default ELSE h[1]

Lower(s) == IF s = "TEXT/HTML" THEN "text/html" ELSE s

ContainsHtml(s) == s \in {"text/html", "text/html; charset=utf-8"}

\* IsInvalid without the content-type test
IsInvalidLengthOnly(ct, cl) == cl < Threshold

\* IsInvalid with "and" for "or"
IsInvalidAnd(ct, cl) == ContainsHtml(Lower(ct)) /\ cl < Threshold

\* line 61
IsInvalid(ct, cl) == ContainsHtml(Lower(ct)) \/ cl < Threshold

\* response.text, as written to ERROR_HTML_FILE
TextOf(r) == [src |-> r.src, len |-> r.body_len]

\* open(dest_filename, "ab"): the file keeps its bytes; position at the end
OpenAb(old) == [data |-> old, pos |-> ByteLen(old)]

\* open(dest_filename, "wb"): the file is created or truncated; position 0
OpenWb(old) == [data |-> <<>>, pos |-> 0]

\* Progress without min(100, ...)
ProgressNoCap(d, cl) == (d * 100) \div cl

\* line 76; the quotient is below 2^53, so int(a * 100 / b) is the floor
Progress(d, cl) == Min(100, (d * 100) \div cl)

\* an except clause that removes the partial file
RemovePartial(f) == None

\* lines 81-83: the except clause leaves the file as the writes left it
KeepPartial(f) == f

\* threaded_process without "if success"
AfterDownloadAlways(ok) == "getsize"

\* lines 185-187: where threaded_process goes when download_video_file returns
AfterDownload(ok) == IF ok THEN "getsize" ELSE "done"

Emit(t, e) == log' = [log EXCEPT ![t] = Append(@, e)]
Issue(t, ph) == phases' = [phases EXCEPT ![t] = Append(@, ph)]
Goto(t, l) == pc' = [pc EXCEPT ![t] = l]

\* start_process: the click; threaded_process runs in a new thread, reads
\* the link typed by the caller and resolves it (lines 181-184)
start_process(t, urls) ==
    /\ pc[t] = "idle"
    /\ \E u \in urls :
        /\ url' = [url EXCEPT ![t] = u]
        /\ file_id' = [file_id EXCEPT ![t] = convert_drive_link_to_file_id(u)]
    /\ Goto(t, "get")
    /\ UNCHANGED <<artifact, errorHtml, log, phases, dlVars, upVars, tokVars>>

\* lines 32-48: the first GET, and the search for the confirmation form
DownloadGet(t, resps, forms) ==
    /\ pc[t] = "get"
    /\ Issue(t, "get")
    /\ sent' = [sent EXCEPT ![t] = Append(@, GetRequest(file_id[t]))]
    /\ \/ \* session.get raises: nothing catches it, the thread ends
          /\ Goto(t, "crashed")
          /\ UNCHANGED <<response, confirm>>
       \/ \E r \in resps, f \in forms :
            LET c == get_confirm_info_from_form(f)
            IN  /\ response' = [response EXCEPT ![t] = Received(t, 1, r, f)]
                /\ confirm' = [confirm EXCEPT ![t] = c]
                /\ IF Truthy(c[1]) /\ Truthy(c[2])
                   THEN Goto(t, "confirm_get")
                   ELSE Goto(t, "validate")
    /\ UNCHANGED <<artifact, errorHtml, log, content_length, consumed, fpos, downloaded, progress, success, tpVars, upVars, tokVars>>

\* lines 49-56: the second GET, to the confirmation endpoint
DownloadConfirmGet(t, resps) ==
    /\ pc[t] = "confirm_get"
    /\ Issue(t, "confirm_get")
    /\ sent' = [sent EXCEPT ![t] = Append(@, ConfirmRequest(file_id[t], confirm[t]))]
    /\ \/ Goto(t, "crashed") /\ UNCHANGED response
       \/ \E r \in resps :
            /\ response' = [response EXCEPT ![t] = Received(t, 2, r, None)]
            /\ Goto(t, "validate")
    /\ UNCHANGED <<artifact, errorHtml, log, confirm, content_length, consumed, fpos, downloaded, progress, success, tpVars, upVars, tokVars>>

\* lines 58-66: the validity check on the last response
DownloadValidate(t) ==
    LET ct == HeaderOr(response[t].content_type, "")
        cl == HeaderOr(response[t].content_length, 0)
    IN  /\ pc[t] = "validate"
        /\ content_length' = [content_length EXCEPT ![t] = cl]
        /\ IF IsInvalid(ct, cl)
           THEN /\ Emit(t, [kind |-> "invalid_content"])
                /\ errorHtml' = Some(TextOf(response[t]))
                /\ success' = [success EXCEPT ![t] = Some(FALSE)]
                /\ Goto(t, AfterDownload(FALSE))
           ELSE /\ Goto(t, "open")
                /\ UNCHANGED <<log, errorHtml, success>>
        /\ UNCHANGED <<artifact, phases, sent, response, confirm, consumed, fpos, downloaded, progress, tpVars, upVars, tokVars>>

\* lines 69-70
DownloadOpen(t) ==
    LET f == OpenWb(IF artifact = None THEN <<>> ELSE artifact[1])
    IN  /\ pc[t] = "open"
        /\ artifact' = Some(f.data)
        /\ fpos' = [fpos EXCEPT ![t] = f.pos]
        /\ downloaded' = [downloaded EXCEPT ![t] = 0]
        /\ Goto(t, "stream")
        /\ UNCHANGED <<errorHtml, log, phases, sent, response, confirm, content_length, consumed, progress, success, tpVars, upVars, tokVars>>

\* lines 71-78: one chunk of iter_content(32768)
DownloadChunk(t, lens) ==
    /\ pc[t] = "stream"
    /\ consumed[t] < response[t].body_len
    /\ \E l \in lens :
        LET n == Min(l, response[t].body_len - consumed[t])
            data == Run(response[t].src, consumed[t], consumed[t] + n)
            d == downloaded[t] + n
        IN  /\ consumed' = [consumed EXCEPT ![t] = @ + n]
            /\ IF data # <<>>
               THEN /\ artifact' = Some(WriteAt(artifact[1], fpos[t], data))
                    /\ fpos' = [fpos EXCEPT ![t] = @ + n]
                    /\ downloaded' = [downloaded EXCEPT ![t] = d]
                    /\ IF content_length[t] # 0
                       THEN progress' = [progress EXCEPT ![t] = Progress(d, content_length[t])]
                       ELSE UNCHANGED progress
               ELSE UNCHANGED <<artifact, fpos, downloaded, progress>>
    /\ UNCHANGED <<pc, errorHtml, log, phases, sent, response, confirm, content_length, success, tpVars, upVars, tokVars>>

\* lines 79-80: the stream ended
DownloadEnd(t) ==
    /\ pc[t] = "stream"
    /\ consumed[t] = response[t].body_len
    /\ Emit(t, [kind |-> "download_complete"])
    /\ success' = [success EXCEPT ![t] = Some(TRUE)]
    /\ Goto(t, AfterDownload(TRUE))
    /\ UNCHANGED <<artifact, errorHtml, phases, sent, response, confirm, content_length, consumed, fpos, downloaded, progress, tpVars, upVars, tokVars>>

\* lines 81-83: iter_content or f.write raised
DownloadFail(t) ==
    /\ pc[t] = "stream"
    /\ Emit(t, [kind |-> "download_failed"])
    /\ artifact' = KeepPartial(artifact)
    /\ success' = [success EXCEPT ![t] = Some(FALSE)]
    /\ Goto(t, AfterDownload(FALSE))
    /\ UNCHANGED <<errorHtml, phases, sent, response, confirm, content_length, consumed, fpos, downloaded, progress, tpVars, upVars, tokVars>>

\* ------------------------------------------------------------ upload_to_facebook
Offsets == {None} \cup {Some(n) : n \in (0 - 1)..MaxOffset}

\* the JSON bodies the upload server may give to the Start request
StartResponses ==
    [upload_session_id : {None, Some(""), Some("S")},
     video_id : {None, Some("V")},
     start_offset : Offsets,
     end_offset : Offsets]

\* the JSON bodies the upload server may give to a Transfer request
TransferResponses ==
    [error : {None}, start_offset : Offsets, end_offset : Offsets]
    \cup {[error |-> Some("E"), start_offset |-> None, end_offset |-> None]}

\* "session_id is None" for "not session_id"
SessionMissingIsNone(sid) == sid = None

\* line 102: not session_id
SessionMissing(sid) == ~Truthy(sid)

\* "return" for "break" at line 111
AfterReadReturn(c) == IF c = <<>> THEN "done" ELSE "transfer"

\* lines 110-111: a read of zero bytes leaves the loop
AfterRead(c) == IF c = <<>> THEN "finish" ELSE "transfer"

\* "break" for "return" at line 125
AfterTransferErrorBreak == "finish"

\* lines 123-125: an error field ends the function
AfterTransferError == "done"

\* a loop that keeps the cursor of the Start response
NextCursorStale(old, res) == old

\* lines 127-128: the cursor becomes the one of the Transfer response
NextCursor(old, res) == <<res.start_offset, res.end_offset>>

\* "return" for "break" at line 134
AfterOffsetsReturn(so, eo) == IF so = eo THEN "done" ELSE "read"

\* lines 133-134
AfterOffsets(so, eo) == IF so = eo THEN "finish" ELSE "read"

\* line 143
FbLink(v) == [url |-> "https://www.facebook.com/video.php?v=", v |-> v]

Count(seq, x) == Cardinality({i \in 1..Len(seq) : seq[i] = x})

\* the step of upload_to_facebook named where raises an exception
Raise(t, where) == raised' = [raised EXCEPT ![t] = where]

\* an except clause that reports nothing
UploadFailedSilent(t) ==
    /\ UNCHANGED log
    /\ Goto(t, "done")

\* lines 146-148: any exception raised in the try block
UploadFailed(t) ==
    /\ Emit(t, [kind |-> "upload_failed"])
    /\ Goto(t, "done")

\* lines 88-89
UploadGetSize(t) ==
    /\ pc[t] = "getsize"
    /\ IF artifact = None
       THEN Raise(t, "getsize") /\ UploadFailed(t) /\ UNCHANGED file_size
       ELSE /\ file_size' = [file_size EXCEPT ![t] = ByteLen(artifact[1])]
            /\ Emit(t, [kind |-> "uploading", size |-> ByteLen(artifact[1])])
            /\ Goto(t, "start")
            /\ UNCHANGED raised
    /\ UNCHANGED <<artifact, errorHtml, phases, tpVars, dlVars, start_res, session_id, video_id, start_offset, end_offset, chunk, echoed, loop_exit, tokVars>>

\* lines 90-104: the Start request
UploadStart(t, resps) ==
    /\ pc[t] = "start"
    /\ Issue(t, "start")
    /\ \/ \* requests.post or .json() raises
          /\ Raise(t, "start")
          /\ UploadFailed(t)
          /\ UNCHANGED <<start_res, session_id, video_id, start_offset, end_offset>>
       \/ \E r \in resps :
            LET res == [upload_session_id |-> r.upload_session_id, video_id |-> r.video_id,
                        start_offset |-> r.start_offset, end_offset |-> r.end_offset]
            IN
            /\ start_res' = [start_res EXCEPT ![t] = Some(res)]
            /\ session_id' = [session_id EXCEPT ![t] = res.upload_session_id]
            /\ video_id' = [video_id EXCEPT ![t] = res.video_id]
            /\ start_offset' = [start_offset EXCEPT ![t] = res.start_offset]
            /\ end_offset' = [end_offset EXCEPT ![t] = res.end_offset]
            /\ IF SessionMissing(res.upload_session_id)
               THEN /\ Emit(t, [kind |-> "session_failed", raw |-> res])
                    /\ Goto(t, "done")
               ELSE /\ Goto(t, "read")
                    /\ UNCHANGED log
            /\ UNCHANGED raised
    /\ UNCHANGED <<artifact, errorHtml, tpVars, dlVars, file_size, chunk, echoed, loop_exit, tokVars>>

\* lines 106-111: open(filepath, "rb") before the first iteration; then
\* f.seek(int(start_offset)) and f.read(int(end_offset) - int(start_offset)).
\* int(None) raises TypeError, a negative seek raises.
UploadRead(t) ==
    /\ pc[t] = "read"
    /\ IF artifact = None \/ start_offset[t] = None \/ end_offset[t] = None
       THEN Raise(t, "read") /\ UploadFailed(t) /\ UNCHANGED <<chunk, loop_exit>>
       ELSE IF start_offset[t][1] < 0
       THEN Raise(t, "read") /\ UploadFailed(t) /\ UNCHANGED <<chunk, loop_exit>>
       ELSE LET c == ReadAt(artifact[1], start_offset[t][1], end_offset[t][1] - start_offset[t][1])
            IN  /\ chunk' = [chunk EXCEPT ![t] = c]
                /\ Goto(t, AfterRead(c))
                /\ loop_exit' = [loop_exit EXCEPT ![t] = IF c = <<>> THEN "empty_read" ELSE @]
                /\ UNCHANGED <<log, raised>>
    /\ UNCHANGED <<artifact, errorHtml, phases, tpVars, dlVars, file_size, start_res, session_id, video_id, start_offset, end_offset, echoed, tokVars>>

\* lines 113-121: the Transfer request, as built from the variables
TransferRequest(t) ==
    [upload_phase |-> "transfer", upload_session_id |-> session_id[t],
     start_offset |-> start_offset[t], video_file_chunk |-> chunk[t]]

\* lines 113-134: one Transfer request and the handling of its response
UploadTransfer(t, resps) ==
    /\ pc[t] = "transfer"
    /\ Count(phases[t], "transfer") < MaxTransfers
    /\ Issue(t, "transfer")
    /\ \/ /\ Raise(t, "transfer")
          /\ UploadFailed(t)
          /\ UNCHANGED <<start_offset, end_offset, echoed, loop_exit>>
       \/ \E transfer_res \in resps :
            IF transfer_res.error # None
            THEN /\ Emit(t, [kind |-> "transfer_error", error |-> transfer_res.error])
                 /\ Goto(t, AfterTransferError)
                 /\ loop_exit' = [loop_exit EXCEPT ![t] = "error"]
                 /\ UNCHANGED <<start_offset, end_offset, echoed, raised>>
            ELSE LET cur == NextCursor(<<start_offset[t], end_offset[t]>>, transfer_res)
                 IN  /\ start_offset' = [start_offset EXCEPT ![t] = cur[1]]
                     /\ end_offset' = [end_offset EXCEPT ![t] = cur[2]]
                     /\ echoed' = [echoed EXCEPT ![t] = @ /\ transfer_res.end_offset = end_offset[t]]
                     /\ Emit(t, [kind |-> "chunk_uploaded"])
                     /\ Goto(t, AfterOffsets(cur[1], cur[2]))
                     /\ loop_exit' = [loop_exit EXCEPT ![t] = IF cur[1] = cur[2] THEN "equal" ELSE @]
                     /\ UNCHANGED raised
    /\ UNCHANGED <<artifact, errorHtml, tpVars, dlVars, file_size, start_res, session_id, video_id, chunk, tokVars>>

\* lines 136-145: the Finish request and the reference
UploadFinish(t) ==
    /\ pc[t] = "finish"
    /\ Issue(t, "finish")
    /\ \/ Raise(t, "finish") /\ UploadFailed(t)
       \/ /\ Emit(t, [kind |-> "uploaded", fb_link |-> FbLink(video_id[t])])
          /\ Goto(t, "done")
          /\ UNCHANGED raised
    /\ UNCHANGED <<artifact, errorHtml, tpVars, dlVars, file_size, start_res, session_id, video_id, start_offset, end_offset, chunk, echoed, loop_exit, tokVars>>

\* ------------------------------------------------------------ test_token
\* the JSON objects the Graph API may give: the fields "id" and "error"
TokenResponses == [id : {None, Some(""), Some("123")}, error : {None, Some("E")}]

\* "'error' not in res" for "'id' in res"
HasNoError(res) == res.error = None

\* line 154: 'id' in res
HasId(res) == res.id # None

\* run_token_test: the click; test_token runs in a new thread
run_token_test ==
    /\ tt_pc = "idle"
    /\ tt_pc' = "get"
    /\ UNCHANGED <<pc, artifact, errorHtml, log, phases, tpVars, dlVars, upVars, tt_res, tt_log, tt_gets>>

\* lines 152-158
test_token(resps) ==
    /\ tt_pc = "get"
    /\ tt_gets' = tt_gets + 1
    /\ \/ \* requests.get or .json() raises: nothing catches it, the thread ends
          /\ tt_pc' = "crashed"
          /\ UNCHANGED <<tt_res, tt_log>>
       \/ \E r \in resps :
            LET res == [id |-> r.id, error |-> r.error]
            IN  /\ tt_res' = Some(res)
                /\ tt_log' = Append(tt_log,
                        IF HasId(res) THEN [kind |-> "token_valid"]
                        ELSE [kind |-> "token_invalid", raw |-> res])
                /\ tt_pc' = "done"
    /\ UNCHANGED <<pc, artifact, errorHtml, log, phases, tpVars, dlVars, upVars>>

vars == <<pc, artifact, errorHtml, log, phases, tpVars, dlVars, upVars, tokVars>>

\* the disk as an earlier run of the program may have left it
Init ==
    /\ pc = [t \in Ops |-> "idle"]
    /\ artifact \in {None, Some(<<>>), Some(Run(OldSrc, 0, OldLen))}
    /\ errorHtml = None
    /\ log = [t \in Ops |-> <<>>]
    /\ progress = [t \in Ops |-> NoProgress]
    /\ phases = [t \in Ops |-> <<>>]
    /\ url = [t \in Ops |-> <<>>]
    /\ file_id = [t \in Ops |-> <<>>]
    /\ sent = [t \in Ops |-> <<>>]
    /\ response = [t \in Ops |-> NoResponse]
    /\ confirm = [t \in Ops |-> <<None, None>>]
    /\ content_length = [t \in Ops |-> 0]
    /\ consumed = [t \in Ops |-> 0]
    /\ fpos = [t \in Ops |-> 0]
    /\ downloaded = [t \in Ops |-> 0]
    /\ success = [t \in Ops |-> None]
    /\ file_size = [t \in Ops |-> 0]
    /\ start_res = [t \in Ops |-> None]
    /\ session_id = [t \in Ops |-> None]
    /\ video_id = [t \in Ops |-> None]
    /\ start_offset = [t \in Ops |-> None]
    /\ end_offset = [t \in Ops |-> None]
    /\ chunk = [t \in Ops |-> <<>>]
    /\ echoed = [t \in Ops |-> TRUE]
    /\ loop_exit = [t \in Ops |-> "none"]
    /\ raised = [t \in Ops |-> "none"]
    /\ tt_pc = "idle"
    /\ tt_res = None
    /\ tt_log = <<>>
    /\ tt_gets = 0

\* One operation running alone: the caller clicks once.  What earlier
\* operations and runs left on disk is in Init.
Next ==
    \E t \in {1} :
        \/ start_process(t, {ViewUrl})
        \/ DownloadGet(t, GetResponses, ConcForms)
        \/ DownloadConfirmGet(t, GetResponses)
        \/ DownloadValidate(t)
        \/ DownloadOpen(t)
        \/ DownloadChunk(t, ChunkLens)
        \/ DownloadEnd(t)
        \/ DownloadFail(t)
        \/ UploadGetSize(t)
        \/ UploadStart(t, StartResponses)
        \/ UploadRead(t)
        \/ UploadTransfer(t, TransferResponses)
        \/ UploadFinish(t)

Spec == Init /\ [][Next]_vars

\* ------------------------------------------------------------ concurrent operations
\* start_process starts a thread per click and nothing serialises the threads:
\* here every operation may be started at any time.  The servers' answers are
\* drawn from smaller sets.
ConcResponses ==
    [content_type : {Some("video/mp4"), Some("text/html; charset=utf-8")},
     content_length : {Some(Threshold)},
     body_len : {TinyLen}]

ConcChunkLens == {1, ReadSize}

ConcStartResponses ==
    [upload_session_id : {None, Some("S")},
     video_id : {Some("V")},
     start_offset : {Some(0)},
     end_offset : {Some(1)}]

ConcTransferResponses ==
    [error : {None}, start_offset : {Some(1), Some(TinyLen)}, end_offset : {Some(TinyLen)}]
    \cup {[error |-> Some("E"), start_offset |-> None, end_offset |-> None]}

NextConc ==
    \E t \in Ops :
        \/ start_process(t, {ViewUrl})
        \/ DownloadGet(t, ConcResponses, ConcForms)
        \/ DownloadConfirmGet(t, ConcResponses)
        \/ DownloadValidate(t)
        \/ DownloadOpen(t)
        \/ DownloadChunk(t, ConcChunkLens)
        \/ DownloadEnd(t)
        \/ DownloadFail(t)
        \/ UploadGetSize(t)
        \/ UploadStart(t, ConcStartResponses)
        \/ UploadRead(t)
        \/ UploadTransfer(t, ConcTransferResponses)
        \/ UploadFinish(t)

SpecConc == Init /\ [][NextConc]_vars

\* ------------------------------------------------------------ a transfer and a credential check
\* One transfer operation and the thread of run_token_test, started at any
\* time; the first download response may hold any of the forms.
NextSmall ==
    \/ \E t \in {1} :
        \/ start_process(t, {ViewUrl, OpenUrl})
        \/ DownloadGet(t, ConcResponses, Forms)
        \/ DownloadConfirmGet(t, ConcResponses)
        \/ DownloadValidate(t)
        \/ DownloadOpen(t)
        \/ DownloadChunk(t, ConcChunkLens)
        \/ DownloadEnd(t)
        \/ DownloadFail(t)
        \/ UploadGetSize(t)
        \/ UploadStart(t, ConcStartResponses)
        \/ UploadRead(t)
        \/ UploadTransfer(t, ConcTransferResponses)
        \/ UploadFinish(t)
    \/ run_token_test
    \/ test_token(TokenResponses)

SpecSmall == Init /\ [][NextSmall]_vars

\* ------------------------------------------------------------ the links
\* The caller types any link and clicks; threaded_process resolves it.
NextResolve == \E t \in {1} : start_process(t, Urls)

SpecResolve == Init /\ [][NextResolve]_vars

\* ------------------------------------------------------------ a server that moves the cursor on
\* One operation on a small file.  The upload server answers a Transfer
\* request without an error field, with a start_offset beyond the one sent and
\* start_offset <= end_offset <= file_size.  The thread is not held up for
\* ever: a step that can be taken is taken.
LiveResponses ==
    [content_type : {Some("video/mp4")},
     content_length : {Some(Threshold)},
     body_len : {0, TinyLen, MaxOffset}]

LiveChunkLens == {1, ReadSize}

WellBehaved(t) ==
    {r \in TransferResponses :
        /\ r.error = None
        /\ r.start_offset # None /\ r.end_offset # None
        /\ r.start_offset[1] > start_offset[t][1]
        /\ r.start_offset[1] <= r.end_offset[1]
        /\ r.end_offset[1] <= file_size[t]}

NextLive ==
    \E t \in {1} :
        \/ start_process(t, {ViewUrl})
        \/ DownloadGet(t, LiveResponses, ConcForms)
        \/ DownloadConfirmGet(t, LiveResponses)
        \/ DownloadValidate(t)
        \/ DownloadOpen(t)
        \/ DownloadChunk(t, LiveChunkLens)
        \/ DownloadEnd(t)
        \/ DownloadFail(t)
        \/ UploadGetSize(t)
        \/ UploadStart(t, StartResponses)
        \/ UploadRead(t)
        \/ UploadTransfer(t, WellBehaved(t))
        \/ UploadFinish(t)

SpecLive == Init /\ [][NextLive]_vars /\ WF_vars(NextLive)

\* ------------------------------------------------------------ properties
Last(seq) == seq[Len(seq)]

Kinds(t) == [i \in 1..Len(log[t]) |-> log[t][i].kind]

\* n Transfer requests
Transfers(n) == [i \in 1..n |-> "transfer"]

\* the requests of the Fetcher that precede any request of the Uploader
GetPrefixes == {<<"get">>, <<"get", "confirm_get">>}

GotStartResponse(t) == start_res[t] # None

HasToken(t) ==
    /\ GotStartResponse(t)
    /\ start_res[t][1].upload_session_id \notin {None, Some("")}

C2_TransferErrorStops ==
    \A t \in Ops :
        loop_exit[t] = "error" =>
            /\ pc[t] = "done"
            /\ Last(log[t]) = [kind |-> "transfer_error", error |-> Some("E")]
            /\ Last(phases[t]) = "transfer"
            /\ Count(phases[t], "finish") = 0
            /\ Count(Kinds(t), "uploaded") = 0

C2_Witness ==
    \E t \in Ops :
        /\ loop_exit[t] = "error"
        /\ Count(phases[t], "transfer") = 2
        /\ pc[t] = "done"

\* C3: when the Start response has no session token (upload_session_id missing
\* or empty), whatever its other fields, the operation has ended with the raw
\* response reported as its last line, the Start request is the last request
\* issued, and no Transfer and no Finish request was issued.
C3_NoTokenNoTransfer ==
    \A t \in Ops :
        (GotStartResponse(t) /\ ~HasToken(t)) =>
            /\ pc[t] = "done"
            /\ Last(log[t]) = [kind |-> "session_failed", raw |-> start_res[t][1]]
            /\ Last(phases[t]) = "start"
            /\ Count(phases[t], "transfer") = 0
            /\ Count(phases[t], "finish") = 0

C3_Witness ==
    \E t \in Ops :
        /\ GotStartResponse(t)
        /\ start_res[t][1].upload_session_id = Some("")
        /\ start_res[t][1].video_id = Some("V")
        /\ start_res[t][1].start_offset = Some(0)
        /\ start_res[t][1].end_offset = Some(TinyLen)
        /\ pc[t] = "done"

\* C4: in the transfer loop the cursor satisfies
\* start_offset <= end_offset <= file_size.
C4_CursorOrdered ==
    \A t \in Ops :
        (pc[t] \in {"read", "transfer"} /\ start_offset[t] # None /\ end_offset[t] # None) =>
            /\ start_offset[t][1] <= end_offset[t][1]
            /\ end_offset[t][1] <= file_size[t]

\* the content-type header declares HTML
DeclaresHtml(r) == r.content_type \in {Some("text/html; charset=utf-8"), Some("TEXT/HTML")}

\* the content-length header declares less than 1,000,000, or is absent
DeclaresShort(r) == r.content_length = None \/ r.content_length[1] < 1000000

\* download_video_file has passed its validity check
Validated(t) == pc[t] \notin {"idle", "get", "confirm_get", "validate", "crashed"}

Rejected(t) ==
    /\ pc[t] = "done"
    /\ success[t] = Some(FALSE)
    /\ Last(log[t]) = [kind |-> "invalid_content"]
    /\ phases[t] \in GetPrefixes

\* C5: when the last download response declares an HTML content-type, whatever
\* its content-length, download_video_file reports failure and returns False,
\* the diagnostic file holds the text of that response, and the step that
\* rejects the response leaves the Local Artifact as it was (not created, not
\* overwritten).
C5_HtmlRejected ==
    /\ [](\A t \in Ops :
            (Validated(t) /\ DeclaresHtml(response[t])) =>
                (Rejected(t) /\ errorHtml = Some(TextOf(response[t]))))
    /\ [][\A t \in Ops :
            (pc[t] = "validate" /\ DeclaresHtml(response[t])) =>
                (artifact' = artifact /\ pc'[t] = "done")]_vars

C5_Witness ==
    \E t \in Ops :
        /\ Validated(t) /\ DeclaresHtml(response[t])
        /\ response[t].content_length = Some(Threshold)
        /\ response[t].src = BodySrc(t, 2)
        /\ errorHtml = Some(TextOf(response[t]))
        /\ artifact = Some(Run(OldSrc, 0, OldLen))

\* C6: when the last download response declares a content-length below
\* 1,000,000 or none at all, download_video_file reports failure and returns
\* False also when the content-type is not HTML, and the step that rejects the
\* response leaves the Local Artifact as it was.
C6_ShortRejected ==
    /\ [](\A t \in Ops :
            (Validated(t) /\ DeclaresShort(response[t])) => Rejected(t))
    /\ [][\A t \in Ops :
            (pc[t] = "validate" /\ DeclaresShort(response[t])) =>
                (artifact' = artifact /\ pc'[t] = "done")]_vars

C6_Witness ==
    \E t \in Ops :
        /\ Validated(t)
        /\ response[t].content_length = Some(999999)
        /\ response[t].content_type = Some("video/mp4")
        /\ response[t].body_len = Threshold
        /\ Rejected(t)
        /\ artifact = None

\* C7: when download_video_file returns True (content-length >= 1,000,000, no
\* HTML content-type, the stream ended without an exception), the Local
\* Artifact holds exactly the bytes of the response's body, in order: nothing
\* dropped, duplicated or reordered, and nothing left of an older file.
C7_ArtifactIsStream ==
    \A t \in Ops :
        success[t] = Some(TRUE) =>
            /\ ~DeclaresHtml(response[t]) /\ ~DeclaresShort(response[t])
            /\ artifact = Some(Run(response[t].src, 0, response[t].body_len))

C7_Witness ==
    \E t \in Ops :
        /\ success[t] = Some(TRUE)
        /\ response[t].body_len = Threshold + MaxExtra
        /\ artifact = Some(Run(response[t].src, 0, Threshold + MaxExtra))
        /\ pc[t] = "getsize"

\* C8: the percentages an operation reports during its download never decrease
\* and never exceed 100, whatever the chunk sizes, also when the stream
\* delivers more bytes than the content-length declares.
C8_ProgressMonotoneBounded ==
    /\ [](\A t \in Ops : progress[t] <= 100)
    /\ [][\A t \in Ops : progress[t] <= progress'[t]]_vars

C8_Witness ==
    \E t \in Ops :
        /\ pc[t] = "stream"
        /\ progress[t] = 100
        /\ downloaded[t] > content_length[t]
        /\ downloaded[t] < response[t].body_len

UploaderPcs == {"getsize", "start", "read", "transfer", "finish"}
FetcherPcs == {"get", "confirm_get", "validate", "open", "stream"}

\* C9: within one operation the Uploader runs only after download_video_file
\* has returned True, and once the Uploader has started no step of the
\* Fetcher follows: the operation never returns to the Fetcher, issues no
\* further GET, and the Fetcher's variables keep their values.
C9_FetcherThenUploader ==
    /\ [](\A t \in Ops :
            (pc[t] \in UploaderPcs \/ Count(phases[t], "start") > 0) => success[t] = Some(TRUE))
    /\ [][\A t \in Ops :
            pc[t] \in UploaderPcs =>
                /\ pc'[t] \in UploaderPcs \cup {"done"}
                /\ Count(phases'[t], "get") = Count(phases[t], "get")
                /\ Count(phases'[t], "confirm_get") = Count(phases[t], "confirm_get")
                /\ response'[t] = response[t]
                /\ consumed'[t] = consumed[t]
                /\ fpos'[t] = fpos[t]
                /\ downloaded'[t] = downloaded[t]
                /\ progress'[t] = progress[t]
                /\ success'[t] = success[t]]_vars

C9_Witness ==
    \E t \in Ops, u \in Ops :
        /\ t # u
        /\ pc[t] = "transfer"
        /\ success[t] = Some(TRUE)
        /\ pc[u] = "stream"

\* the file object of line 69 is open for writing
Writing(t) == pc[t] = "stream"

\* the file object of line 106 is open for reading
Reading(t) == pc[t] = "transfer"

\* C10: no Fetcher writes the Local Artifact while another operation's Fetcher
\* writes it or an Uploader reads it.
C10_ExclusiveArtifact ==
    \A t \in Ops, u \in Ops :
        t # u => ~(Writing(t) /\ (Writing(u) \/ Reading(u)))

\* the lines that report a failure
FailureKinds ==
    {"invalid_content", "download_failed", "session_failed", "transfer_error",
     "upload_failed", "token_invalid"}

Reported(lines) == \E i \in 1..Len(lines) : lines[i].kind \in FailureKinds

\* C11: no operation, transfer or credential check, ends by an exception
\* that nothing caught, and an operation that failed has reported a failure
\* line.
C11_EveryFailureReported ==
    /\ \A t \in Ops : pc[t] = "crashed" => Reported(log[t])
    /\ tt_pc = "crashed" => Reported(tt_log)

\* the requests after which each step of upload_to_facebook runs
LastRequestAt(where) ==
    CASE where = "getsize" -> {"get", "confirm_get"}
      [] where = "start" -> {"start"}
      [] where = "read" -> {"start", "transfer"}
      [] where = "transfer" -> {"transfer"}
      [] where = "finish" -> {"finish"}

\* C12: when a step of upload_to_facebook has raised an exception (reading
\* the size, the Start request, the seek and read, a Transfer request, the
\* Finish request, the decoding of a response or of an offset), the function
\* has ended: it reported exactly one "Facebook upload failed" line, which is
\* its last line, it reported no uploaded reference, and the last request it
\* issued is the one of the step that raised, or the one before that step.
C12_ExceptionReportedOnce ==
    \A t \in Ops :
        raised[t] # "none" =>
            /\ pc[t] = "done"
            /\ Last(log[t]) = [kind |-> "upload_failed"]
            /\ Count(Kinds(t), "upload_failed") = 1
            /\ Count(Kinds(t), "uploaded") = 0
            /\ Last(phases[t]) \in LastRequestAt(raised[t])

C12_Witness ==
    \E t \in Ops :
        /\ raised[t] = "read"
        /\ start_res[t] # None
        /\ start_res[t][1].upload_session_id = Some("S")
        /\ start_res[t][1].start_offset = None
        /\ start_res[t][1].end_offset = None
        /\ Last(phases[t]) = "start"
        /\ Last(log[t]) = [kind |-> "upload_failed"]

\* C13: once test_token has decoded a response, it has issued exactly one GET
\* and inserted exactly one line: "Token is valid" when the response holds
\* the field 'id', whatever its value and whatever else it holds, and
\* otherwise "Invalid token or page ID" with the raw response; it issues no
\* second GET, and no step of it changes the Local Artifact or the
\* diagnostic file.
C13_TokenClassified ==
    /\ [](tt_res # None =>
            /\ tt_pc = "done"
            /\ tt_gets = 1
            /\ tt_log = << IF tt_res[1].id # None
                           THEN [kind |-> "token_valid"]
                           ELSE [kind |-> "token_invalid", raw |-> tt_res[1]] >>)
    /\ [](tt_gets <= 1)
    /\ [][tt_pc' # tt_pc => (artifact' = artifact /\ errorHtml' = errorHtml)]_vars

C13_Witness ==
    /\ tt_res = Some([id |-> Some(""), error |-> Some("E")])
    /\ tt_log = <<[kind |-> "token_valid"]>>
    /\ tt_gets = 1
    /\ pc[1] = "stream"
    /\ artifact # None

\* the characters of the model an identifier may hold
IdChars == {"a", "d", "e", "i", "n", "o", "p", "x", "_", "-"}

First(S) == CHOOSE i \in S : \A j \in S : i <= j
Greatest(S) == CHOOSE i \in S : \A j \in S : i >= j

\* the slashes of u from index i on
SlashesFrom(u, i) == {j \in i..Len(u) : u[j] = "/"}

\* u holds "/d/", and what follows the first "/d/" is a segment closed by "/"
HasSegment(u) ==
    /\ Occurrences(u, SlashD) # {}
    /\ SlashesFrom(u, First(Occurrences(u, SlashD)) + 3) # {}

\* the segment between the first "/d/" of u and the next "/"
Segment(u) ==
    LET i == First(Occurrences(u, SlashD)) + 3
    IN  SubSeq(u, i, First(SlashesFrom(u, i)) - 1)

\* C14: when a link holds "/d/<token>/", <token> being the whole segment
\* between the first "/d/" and the next "/", not empty and made of
\* identifier characters (letters, digits, "_", "-"), the identifier resolved
\* from the link is exactly <token>, whatever precedes "/d/" and whatever
\* follows the closing "/".
C14_SegmentResolved ==
    \A t \in Ops :
        ( /\ pc[t] # "idle"
          /\ HasSegment(url[t])
          /\ Segment(url[t]) # <<>>
          /\ \A k \in 1..Len(Segment(url[t])) : Segment(url[t])[k] \in IdChars )
        => file_id[t] = Segment(url[t])

C14_Witness ==
    \E t \in Ops :
        /\ pc[t] # "idle"
        /\ url[t] = <<"/", "d", "/", "a", "-", "/">> \o Marker
        /\ file_id[t] = <<"a", "-">>

\* what follows an occurrence of "open?id=" in u
Suffixes(u) == {SubSeq(u, i + Len(Marker), Len(u)) : i \in Occurrences(u, Marker)}

\* C15 as stated: when a link holds "open?id=", the identifier resolved from
\* it is what follows the marker, also when the link holds a "/d/" segment
\* or several markers.
C15_AfterMarker ==
    \A t \in Ops :
        (pc[t] # "idle" /\ Contains(url[t], Marker)) => file_id[t] \in Suffixes(url[t])

\* the indices at which u holds "/d/" followed by an identifier character
Captures(u) == {i \in Occurrences(u, SlashD) : i + 3 <= Len(u) /\ u[i + 3] \in IdChars}

\* the identifier characters of u from index j on, up to the first other one
RECURSIVE IdRun(_, _)
IdRun(u, j) == IF j <= Len(u) /\ u[j] \in IdChars THEN <<u[j]>> \o IdRun(u, j + 1) ELSE <<>>

\* C15: when a link holds "open?id=" and nowhere "/d/" followed by an
\* identifier character, the identifier resolved from it is everything that
\* follows the last marker; when it also holds "/d/" followed by an identifier
\* character, the identifier is the run of identifier characters after the
\* first such "/d/", not what follows the marker.
C15_AfterLastMarker ==
    \A t \in Ops :
        (pc[t] # "idle" /\ Contains(url[t], Marker)) =>
            IF Captures(url[t]) = {}
            THEN file_id[t] =
                    SubSeq(url[t], Greatest(Occurrences(url[t], Marker)) + Len(Marker), Len(url[t]))
            ELSE file_id[t] = IdRun(url[t], First(Captures(url[t])) + 3)

C15_Witness ==
    \E t \in Ops :
        /\ pc[t] # "idle"
        /\ url[t] = Marker \o <<"a">> \o Marker \o <<"-", ".">>
        /\ file_id[t] = <<"-", ".">>

\* C16: every Transfer request carries the session token of the Start
\* response, the start_offset the server dictated last, and a chunk of
\* exactly end_offset - start_offset bytes, the bytes of the Local Artifact
\* from start_offset on.  At "transfer" the chunk has been read and the
\* request is the next thing the operation does.
C16_TransferCarriesRange ==
    \A t \in Ops :
        pc[t] = "transfer" =>
            LET q == TransferRequest(t)
                so == start_offset[t][1]
                eo == end_offset[t][1]
            IN  /\ q.upload_session_id = start_res[t][1].upload_session_id
                /\ Count(phases[t], "transfer") = 0 =>
                        q.start_offset = start_res[t][1].start_offset
                /\ ByteLen(q.video_file_chunk) = eo - so
                /\ q.video_file_chunk = TakeBytes(DropBytes(artifact[1], so), eo - so)

\* C17: when the read at the cursor yields zero bytes (the cursor is empty,
\* or start_offset is at or beyond the end of the file), the step leaves the
\* loop for the Finish request without a Transfer request for that cursor:
\* every Transfer request issued was answered, the next and last request is
\* Finish, and the operation ends with the uploaded reference, or with the
\* failure line when the Finish request raised; this also when no Transfer
\* response returned start_offset = end_offset.
C17_EmptyReadFinishes ==
    /\ [](\A t \in Ops :
            loop_exit[t] = "empty_read" =>
                /\ chunk[t] = <<>>
                /\ pc[t] \in {"finish", "done"}
                /\ Count(phases[t], "transfer") = Count(Kinds(t), "chunk_uploaded")
                /\ pc[t] = "done" =>
                        /\ Last(phases[t]) = "finish"
                        /\ Count(phases[t], "finish") = 1
                        /\ Last(log[t]) \in
                                { [kind |-> "upload_failed"],
                                  [kind |-> "uploaded", fb_link |-> FbLink(video_id[t])] })
    /\ [][\A t \in Ops :
            (pc[t] = "read" /\ loop_exit'[t] = "empty_read") =>
                (pc'[t] = "finish" /\ phases'[t] = phases[t] /\ log'[t] = log[t])]_vars

C17_Witness ==
    \E t \in Ops :
        /\ loop_exit[t] = "empty_read"
        /\ pc[t] = "done"
        /\ Count(phases[t], "transfer") = 2
        /\ start_offset[t] # end_offset[t]
        /\ start_offset[t][1] >= file_size[t]
        /\ Last(log[t]).kind = "uploaded"

\* a hidden field of the form holds a value
HasValue(field) == field # None /\ field[1] # None /\ field[1][1] # ""

\* the response holds the confirmation form with both hidden-field values
BothValues(r) ==
    /\ r.form # None
    /\ HasValue(r.form[1].confirm)
    /\ HasValue(r.form[1].uuid)

\* C18: download_video_file issues the second GET if and only if the first
\* response holds the confirmation form with both hidden-field values; the
\* second GET goes to the confirmation endpoint, which is not the first one,
\* with the Identifier, export=download and the two values of the form; a
\* download issues at most two GETs; the validity check looks at the response
\* of the last GET issued.
C18_ConfirmGetIff ==
    /\ [][\A t \in Ops :
            (pc[t] = "get" /\ pc'[t] \notin {"get", "crashed"}) =>
                /\ pc'[t] \in {"confirm_get", "validate"}
                /\ pc'[t] = "confirm_get" <=> BothValues(response'[t])]_vars
    /\ [](\A t \in Ops :
            /\ Len(sent[t]) <= 2
            /\ Count(phases[t], "get") <= 1
            /\ Count(phases[t], "confirm_get") <= 1
            /\ pc[t] = "confirm_get" =>
                    confirm[t] = <<response[t].form[1].confirm[1], response[t].form[1].uuid[1]>>
            /\ Count(phases[t], "confirm_get") = 1 =>
                    /\ Len(sent[t]) = 2
                    /\ sent[t][1].endpoint = "https://drive.google.com/uc?export=download"
                    /\ sent[t][2] =
                            [endpoint |-> "https://drive.usercontent.google.com/download",
                             params |-> [id |-> <<"a", "-", "_">>, export |-> "download",
                                         confirm |-> confirm[t][1], uuid |-> confirm[t][2]]])
    /\ [][\A t \in Ops :
            (pc[t] = "validate" /\ pc'[t] # "validate") =>
                /\ response[t].src = BodySrc(t, Len(sent[t]))
                /\ pc'[t] = "done" <=> (DeclaresHtml(response[t]) \/ DeclaresShort(response[t]))]_vars

C18_Witness ==
    \E t \in Ops :
        /\ pc[t] = "open"
        /\ url[t] = OpenUrl
        /\ phases[t] = <<"get", "confirm_get">>
        /\ sent[t][2].params.confirm = Some("tok")
        /\ sent[t][2].params.uuid = Some("uid")
        /\ response[t].src = BodySrc(t, 2)

\* download_video_file returned False on a response that passed the validity
\* check: iter_content or f.write raised
StreamFailed(t) ==
    /\ Validated(t)
    /\ ~DeclaresHtml(response[t]) /\ ~DeclaresShort(response[t])
    /\ success[t] = Some(FALSE)

\* C19: when an exception is raised while the body is streamed to the Local
\* Artifact, download_video_file reports "Download failed" as its last line
\* and returns False; it removes nothing: the Local Artifact holds exactly
\* the bytes written before the exception; no "Download complete" line is
\* reported and the Uploader is not started.
C19_StreamFailureKeepsPartial ==
    /\ [](\A t \in Ops :
            StreamFailed(t) =>
                /\ pc[t] = "done"
                /\ Last(log[t]) = [kind |-> "download_failed"]
                /\ Count(Kinds(t), "download_complete") = 0
                /\ phases[t] \in GetPrefixes
                /\ file_size[t] = 0 /\ start_res[t] = None
                /\ artifact = Some(Run(response[t].src, 0, downloaded[t])))
    /\ [][\A t \in Ops :
            (pc[t] = "stream" /\ success'[t] = Some(FALSE)) =>
                (artifact' = artifact /\ pc'[t] = "done")]_vars

C19_Witness ==
    \E t \in Ops :
        /\ StreamFailed(t)
        /\ downloaded[t] = ReadSize + ReadSize \div 2
        /\ response[t].body_len = Threshold
        /\ artifact = Some(Run(response[t].src, 0, ReadSize + ReadSize \div 2))
        /\ Last(log[t]) = [kind |-> "download_failed"]

\* C20: with an upload server whose every Transfer response is free of
\* errors, moves start_offset beyond the one sent and keeps
\* start_offset <= end_offset <= file_size, the transfer loop, once entered,
\* ends: by start_offset = end_offset or by a read of zero bytes, and then
\* the Finish request is issued, unless a step raised and the except clause
\* ended the function.  The upload issues at most file_size Transfer
\* requests, and the bound of the model on Transfer requests is never what
\* stops it.
C20_LoopEnds ==
    /\ [](\A t \in Ops :
            /\ Count(phases[t], "transfer") <= file_size[t]
            /\ pc[t] = "transfer" => Count(phases[t], "transfer") < MaxTransfers)
    /\ \A t \in Ops :
            (pc[t] = "read") ~>
                \/ raised[t] # "none"
                \/ /\ loop_exit[t] \in {"equal", "empty_read"}
                   /\ Count(phases[t], "finish") = 1

C20_Witness ==
    \E t \in Ops :
        /\ pc[t] = "done"
        /\ raised[t] = "none"
        /\ file_size[t] = TinyLen
        /\ Count(phases[t], "transfer") = TinyLen
        /\ loop_exit[t] = "equal"
        /\ Last(phases[t]) = "finish"
        /\ Last(log[t]).kind = "uploaded"
====
